---- MODULE Spec2Model ----
(***************************************************************************)
(* The AutoTrader market-making engine of src/strategy/autotrader.cc:      *)
(* its ledgers, counters and event handlers as a state machine.            *)
(*                                                                         *)
(* Integer widths.  The handler arguments, prices and volumes are unsigned *)
(* long (64 bit), the committed volumes and the position signed long, the  *)
(* per-side counts unsigned int.  The model checker's integers are         *)
(* narrower than 64 bits, so an unsigned long value v is held as its       *)
(* residue r of least magnitude: v = r when r >= 0 and v = 2^64 + r when   *)
(* r < 0.  Every magnitude of the model stays far below 2^63, so no two    *)
(* values share a residue, signed long arithmetic never overflows and the  *)
(* conversion unsigned long -> signed long is the identity on residues.    *)
(***************************************************************************)
EXTENDS Integers, Sequences, FiniteSets, TLC

VARIABLES
    mNextMessageId,         \* unsigned long, next order / hedge id
    mOrderBookSequence,     \* unsigned long, last accepted book sequence number
    mETFOrderPositionSell,  \* signed long, volume committed by sell orders
    mETFOrderPositionBuy,   \* signed long, volume committed by buy orders
    mETFOrderAskCount,      \* unsigned int, sell orders in the market
    mETFOrderBidCount,      \* unsigned int, buy orders in the market
    mETFPosition,           \* signed long, confirmed position
    mAsks,                  \* unordered_map id -> Order, sell side
    mBids,                  \* unordered_map id -> Order, buy side
    sent,                   \* requests issued by the handler that ran last
    log                     \* log lines written by the handler that ran last

vars == << mNextMessageId, mOrderBookSequence, mETFOrderPositionSell,
           mETFOrderPositionBuy, mETFOrderAskCount, mETFOrderBidCount,
           mETFPosition, mAsks, mBids, sent, log >>

-----------------------------------------------------------------------------
(* Program constants *)

MAX_ORDER_DEPTH == 5
LOT_SIZE == 10
POSITION_LIMIT == 100
TICK_SIZE_IN_CENTS == 100
\* the price range of ready_trader_go/types.h, the library the engine is built
\* against; autotrader.cc 34, 35 and 37 use them
MINIMUM_BID == 1
MAXIMUM_ASK == 2147483647
MIN_BID_NEARST_TICK ==
    ((MINIMUM_BID + TICK_SIZE_IN_CENTS) \div TICK_SIZE_IN_CENTS) * TICK_SIZE_IN_CENTS
MAX_ASK_NEAREST_TICK == (MAXIMUM_ASK \div TICK_SIZE_IN_CENTS) * TICK_SIZE_IN_CENTS

MAX_ORDER == [price |-> MAXIMUM_ASK, remainingVolume |-> 0, filledVolume |-> 0,
              cancelling |-> FALSE]
MIN_ORDER == [price |-> 0, remainingVolume |-> 0, filledVolume |-> 0,
              cancelling |-> FALSE]

-----------------------------------------------------------------------------
(* Bounds of the model *)

\* ids the engine may allocate: a handler that would go past MaxId is not run
MaxId == 4
\* book sequence numbers delivered are 1 .. MaxSeq
MaxSeq == 2
\* best prices of a book update are 0 (empty side) and 1 .. MaxLevel ticks
MaxLevel == 1
\* the partial volume a status update may report besides 0 and LOT_SIZE
PartVol == 5

Instruments == {"FUTURE", "ETF"}
BookPrices == {TICK_SIZE_IN_CENTS * k : k \in 0 .. MaxLevel}
Volumes == {0, PartVol, LOT_SIZE}
OrderIds == 0 .. MaxId

-----------------------------------------------------------------------------
(* unsigned long arithmetic on residues *)

\* a - b in unsigned long: the residue of the difference (negative: wrapped)
ULongSub(a, b) == a - b
\* v > 0 for an unsigned long v: every value but 0, the wrapped ones included
ULongGtZero(v) == v # 0
\* -v in unsigned long
ULongNeg(v) == 0 - v

-----------------------------------------------------------------------------
(* The engine's fields as one record, so that handlers compose *)

Cur == [mNextMessageId |-> mNextMessageId,
        mOrderBookSequence |-> mOrderBookSequence,
        mETFOrderPositionSell |-> mETFOrderPositionSell,
        mETFOrderPositionBuy |-> mETFOrderPositionBuy,
        mETFOrderAskCount |-> mETFOrderAskCount,
        mETFOrderBidCount |-> mETFOrderBidCount,
        mETFPosition |-> mETFPosition,
        mAsks |-> mAsks,
        mBids |-> mBids,
        sent |-> << >>,
        log |-> << >>]

\* RLOG(LG_AT, ...) << line: the line without the values it prints
RLOG(st, line) == [st EXCEPT !.log = Append(@, line)]

Request(type, id, side, price, volume) ==
    [type |-> type, id |-> id, side |-> side, price |-> price, volume |-> volume]

SendCancelOrder(st, orderId) ==
    [st EXCEPT !.sent = Append(@, Request("cancel", orderId, "NONE", 0, 0))]

SendInsertOrder(st, orderId, side, price, volume) ==
    [st EXCEPT !.sent = Append(@, Request("insert", orderId, side, price, volume))]

SendHedgeOrder(st, orderId, side, price, volume) ==
    [st EXCEPT !.sent = Append(@, Request("hedge", orderId, side, price, volume))]

\* map[key] = value on an unordered_map: inserts or overwrites
MapPut(map, key, value) ==
    [k \in (DOMAIN map) \cup {key} |-> IF k = key THEN value ELSE map[k]]

\* map[key] read through operator[]: a missing key is inserted with a
\* value-initialised Order first
MapAt(map, key) ==
    IF key \in DOMAIN map
    THEN map
    ELSE MapPut(map, key, [price |-> 0, remainingVolume |-> 0, filledVolume |-> 0,
                           cancelling |-> FALSE])

\* map.erase(key)
MapErase(map, key) == [k \in (DOMAIN map) \ {key} |-> map[k]]

\* The orders in which a range-for may visit an unordered_map: unspecified,
\* so every permutation of the keys.
IterationOrders(map) ==
    LET n == Cardinality(DOMAIN map)
    IN {ord \in [1 .. n -> DOMAIN map] :
            \A i, j \in 1 .. n : i # j => ord[i] # ord[j]}

-----------------------------------------------------------------------------
(* OrderStatusMessageHandler *)

\* IsTracked with the second test of line 213 negated the wrong way
IsTrackedNegationSlip(st, clientOrderId) ==
    clientOrderId \in DOMAIN st.mAsks \/ clientOrderId \notin DOMAIN st.mBids

\* autotrader.cc 212-213
IsTracked(st, clientOrderId) ==
    clientOrderId \in DOMAIN st.mAsks \/ clientOrderId \in DOMAIN st.mBids

\* autotrader.cc 222: auto dFilled = fillVolume - order.filledVolume
DFilled(fillVolume, order) == ULongSub(fillVolume, order.filledVolume)

\* autotrader.cc 224: mETFPosition += isSellOrder ? -dFilled : dFilled
PositionAfterFill(position, isSellOrder, dFilled) ==
    position + (IF isSellOrder THEN ULongNeg(dFilled) ELSE dFilled)

\* HedgeSide hedging on the side of the fill
HedgeSideSame(isSellOrder) == IF isSellOrder THEN "SELL" ELSE "BUY"

\* autotrader.cc 225-227
HedgeSide(isSellOrder) == IF isSellOrder THEN "BUY" ELSE "SELL"
HedgePrice(isSellOrder) ==
    IF isSellOrder THEN MAX_ASK_NEAREST_TICK ELSE MIN_BID_NEARST_TICK

\* autotrader.cc 223-228
UpdatePosition(st, isSellOrder, dFilled) ==
    IF ULongGtZero(dFilled)
    THEN SendHedgeOrder(
             [st EXCEPT !.mETFPosition = PositionAfterFill(@, isSellOrder, dFilled),
                        !.mNextMessageId = @ + 1],
             st.mNextMessageId, HedgeSide(isSellOrder), HedgePrice(isSellOrder),
             dFilled)
    ELSE st

\* UpdateCommitted releasing volume only when the remaining volume fell
UpdateCommittedAssumesFall(st, isSellOrder, order, remainingVolume) ==
    LET dRemaining == ULongSub(order.remainingVolume, remainingVolume)
    IN IF dRemaining < 0
       THEN st
       ELSE IF isSellOrder
            THEN [st EXCEPT !.mETFOrderPositionSell = @ - dRemaining]
            ELSE [st EXCEPT !.mETFOrderPositionBuy = @ - dRemaining]

\* autotrader.cc 231-236
UpdateCommitted(st, isSellOrder, order, remainingVolume) ==
    LET dRemaining == ULongSub(order.remainingVolume, remainingVolume)
    IN IF isSellOrder
       THEN [st EXCEPT !.mETFOrderPositionSell = @ - dRemaining]
       ELSE [st EXCEPT !.mETFOrderPositionBuy = @ - dRemaining]

\* StoreVolumes without line 240
StoreVolumesDropsFilled(order, fillVolume, remainingVolume) ==
    [order EXCEPT !.remainingVolume = remainingVolume]

\* StoreVolumes rebuilding the order, which resets the cancelling flag
StoreVolumesResetsFlag(order, fillVolume, remainingVolume) ==
    [price |-> order.price, remainingVolume |-> remainingVolume,
     filledVolume |-> fillVolume, cancelling |-> FALSE]

\* autotrader.cc 239-240
StoreVolumes(order, fillVolume, remainingVolume) ==
    [order EXCEPT !.remainingVolume = remainingVolume, !.filledVolume = fillVolume]

\* UpdateLedger without the decrements of lines 242-246
UpdateLedgerKeepsCount(st, isSellOrder, clientOrderId, fillVolume, remainingVolume) ==
    IF remainingVolume > 0
    THEN IF isSellOrder
         THEN [st EXCEPT !.mAsks[clientOrderId] =
                             StoreVolumes(@, fillVolume, remainingVolume)]
         ELSE [st EXCEPT !.mBids[clientOrderId] =
                             StoreVolumes(@, fillVolume, remainingVolume)]
    ELSE IF isSellOrder
         THEN [st EXCEPT !.mAsks = MapErase(@, clientOrderId)]
         ELSE [st EXCEPT !.mBids = MapErase(@, clientOrderId)]

\* autotrader.cc 238-248
UpdateLedger(st, isSellOrder, clientOrderId, fillVolume, remainingVolume) ==
    IF remainingVolume > 0
    THEN IF isSellOrder
         THEN [st EXCEPT !.mAsks[clientOrderId] =
                             StoreVolumes(@, fillVolume, remainingVolume)]
         ELSE [st EXCEPT !.mBids[clientOrderId] =
                             StoreVolumes(@, fillVolume, remainingVolume)]
    ELSE IF isSellOrder
         THEN [st EXCEPT !.mETFOrderAskCount = @ - 1,
                         !.mAsks = MapErase(@, clientOrderId)]
         ELSE [st EXCEPT !.mETFOrderBidCount = @ - 1,
                         !.mBids = MapErase(@, clientOrderId)]

\* autotrader.cc 203-250
OrderStatusMessageHandler(st, clientOrderId, fillVolume, remainingVolume) ==
    LET isSellOrder == clientOrderId \in DOMAIN st.mAsks
        s0 == RLOG(st, "order status message received")
    IN IF ~IsTracked(s0, clientOrderId)
       THEN RLOG(s0, "received order status for order we are not tracking")
       ELSE LET sa == IF isSellOrder
                      THEN [s0 EXCEPT !.mAsks = MapAt(@, clientOrderId)]
                      ELSE [s0 EXCEPT !.mBids = MapAt(@, clientOrderId)]
                order == IF isSellOrder THEN sa.mAsks[clientOrderId]
                                        ELSE sa.mBids[clientOrderId]
                s1 == UpdatePosition(sa, isSellOrder, DFilled(fillVolume, order))
                s2 == UpdateCommitted(s1, isSellOrder, order, remainingVolume)
            IN UpdateLedger(s2, isSellOrder, clientOrderId, fillVolume,
                            remainingVolume)

-----------------------------------------------------------------------------
(* ErrorMessageHandler *)

\* autotrader.cc 54
ErrorConcernsOrder(st, clientOrderId) ==
    clientOrderId # 0
    /\ (clientOrderId \in DOMAIN st.mAsks \/ clientOrderId \in DOMAIN st.mBids)

\* autotrader.cc 50-58
ErrorMessageHandler(st, clientOrderId) ==
    LET s0 == RLOG(st, "error with order")
    IN IF ErrorConcernsOrder(s0, clientOrderId)
       THEN OrderStatusMessageHandler(s0, clientOrderId, 0, 0)
       ELSE s0

-----------------------------------------------------------------------------
(* RepriceSellOrders *)

\* autotrader.cc 100
NewAskPrice(askPrice) == IF askPrice # 0 THEN askPrice + 100 ELSE MAXIMUM_ASK

\* autotrader.cc 102-105: the locals of the scan; largestOrder points at
\* MIN_ORDER while largestOrderId is 0 and at mAsks[largestOrderId] afterwards
SellScanInit(st) == [st |-> st, largestOrderId |-> 0, askAlreadyExists |-> FALSE]

LargestOrder(acc) ==
    IF acc.largestOrderId = 0 THEN MIN_ORDER ELSE acc.st.mAsks[acc.largestOrderId]

\* NotesAskAtTarget with > for == in line 110
NotesAskAboveTarget(order, newAskPrice) == order.price > newAskPrice

\* autotrader.cc 110-112
NotesAskAtTarget(order, newAskPrice) == order.price = newAskPrice

\* autotrader.cc 113
AskTooAggressive(order, newAskPrice) == order.price < newAskPrice

\* SellScanStep with the test of line 110 ahead of the skip of line 107
SellScanStepNotesCancelling(acc, orderId, newAskPrice) ==
    LET order == acc.st.mAsks[orderId]
        a1 == IF NotesAskAtTarget(order, newAskPrice)
              THEN [acc EXCEPT !.askAlreadyExists = TRUE]
              ELSE acc
    IN IF order.cancelling
       THEN a1
       ELSE IF AskTooAggressive(order, newAskPrice)
            THEN [a1 EXCEPT !.st = [SendCancelOrder(a1.st, orderId)
                                        EXCEPT !.mAsks[orderId].cancelling = TRUE]]
            ELSE IF order.price >= LargestOrder(a1).price
                 THEN [a1 EXCEPT !.largestOrderId = orderId]
                 ELSE a1

\* autotrader.cc 107-120: the loop body for one element of mAsks
SellScanStep(acc, orderId, newAskPrice) ==
    LET order == acc.st.mAsks[orderId]
        a1 == IF NotesAskAtTarget(order, newAskPrice)
              THEN [acc EXCEPT !.askAlreadyExists = TRUE]
              ELSE acc
    IN IF order.cancelling
       THEN acc
       ELSE IF AskTooAggressive(order, newAskPrice)
            THEN [a1 EXCEPT !.st = [SendCancelOrder(a1.st, orderId)
                                        EXCEPT !.mAsks[orderId].cancelling = TRUE]]
            ELSE IF order.price >= LargestOrder(a1).price
                 THEN [a1 EXCEPT !.largestOrderId = orderId]
                 ELSE a1

\* autotrader.cc 106-121: the loop over mAsks in the iteration order ord
RECURSIVE SellScan(_, _, _, _)
SellScan(acc, ord, i, newAskPrice) ==
    IF i > Len(ord)
    THEN acc
    ELSE SellScan(SellScanStep(acc, ord[i], newAskPrice), ord, i + 1, newAskPrice)

\* SellMakeRoomDue acting only at the cap itself
SellMakeRoomDueAtCap(acc) ==
    /\ acc.largestOrderId # 0
    /\ ~LargestOrder(acc).cancelling
    /\ acc.st.mETFOrderAskCount >= MAX_ORDER_DEPTH

\* autotrader.cc 125
SellMakeRoomDue(acc) ==
    /\ acc.largestOrderId # 0
    /\ ~LargestOrder(acc).cancelling
    /\ acc.st.mETFOrderAskCount >= MAX_ORDER_DEPTH - 1

\* autotrader.cc 125-129
SellMakeRoom(acc) ==
    IF SellMakeRoomDue(acc)
    THEN [acc EXCEPT !.st =
              SendCancelOrder(
                  [RLOG(acc.st, "cancelling sell order to make room")
                       EXCEPT !.mAsks[acc.largestOrderId].cancelling = TRUE],
                  acc.largestOrderId)]
    ELSE acc

\* SellGateBlocked with > for >= in line 133
SellGateBlockedDepthOffByOne(st, askAlreadyExists, askPrice) ==
    \/ askAlreadyExists
    \/ (st.mETFPosition - st.mETFOrderPositionSell - LOT_SIZE) < -POSITION_LIMIT
    \/ st.mETFOrderAskCount > MAX_ORDER_DEPTH
    \/ askPrice = 0

\* autotrader.cc 131-134
SellGateBlocked(st, askAlreadyExists, askPrice) ==
    \/ askAlreadyExists
    \/ (st.mETFPosition - st.mETFOrderPositionSell - LOT_SIZE) < -POSITION_LIMIT
    \/ st.mETFOrderAskCount >= MAX_ORDER_DEPTH
    \/ askPrice = 0

\* SellPlace reading mNextMessageId without advancing it
SellPlaceKeepsNextId(st, newAskPrice) ==
    LET orderId == st.mNextMessageId
        s1 == SendInsertOrder(st, orderId, "SELL", newAskPrice, LOT_SIZE)
    IN [s1 EXCEPT !.mETFOrderAskCount = @ + 1,
                  !.mETFOrderPositionSell = @ + LOT_SIZE,
                  !.mAsks = MapPut(@, orderId,
                                   [price |-> newAskPrice,
                                    remainingVolume |-> LOT_SIZE,
                                    filledVolume |-> 0,
                                    cancelling |-> FALSE])]

\* autotrader.cc 138-144
SellPlace(st, newAskPrice) ==
    LET orderId == st.mNextMessageId
        s1 == SendInsertOrder([st EXCEPT !.mNextMessageId = @ + 1],
                              orderId, "SELL", newAskPrice, LOT_SIZE)
    IN [s1 EXCEPT !.mETFOrderAskCount = @ + 1,
                  !.mETFOrderPositionSell = @ + LOT_SIZE,
                  !.mAsks = MapPut(@, orderId,
                                   [price |-> newAskPrice,
                                    remainingVolume |-> LOT_SIZE,
                                    filledVolume |-> 0,
                                    cancelling |-> FALSE])]

\* autotrader.cc 100-129: the locals and fields when control reaches line 131
SellAtGate(st, ord, askPrice) ==
    LET scanned == SellScan(SellScanInit(st), ord, 1, NewAskPrice(askPrice))
        counted == [scanned EXCEPT !.st = RLOG(@, "already cancelling rn")]
    IN SellMakeRoom(counted)

\* autotrader.cc 97-146, for one iteration order of mAsks
RepriceSellOrdersIn(st, ord, askPrice) ==
    LET roomed == SellAtGate(st, ord, askPrice)
    IN IF SellGateBlocked(roomed.st, roomed.askAlreadyExists, askPrice)
       THEN roomed.st
       ELSE SellPlace(roomed.st, NewAskPrice(askPrice))

\* autotrader.cc 97-146: every outcome the iteration order allows
RepriceSellOrders(st, askPrice) ==
    {RepriceSellOrdersIn(st, ord, askPrice) : ord \in IterationOrders(st.mAsks)}

-----------------------------------------------------------------------------
(* RepriceBuyOrders *)

\* NewBidPrice quoting at the best bid itself
NewBidPriceAtBest(bidPrice) == bidPrice

\* autotrader.cc 151; the book prices are whole ticks, so the unsigned
\* subtraction does not wrap
NewBidPrice(bidPrice) == IF bidPrice # 0 THEN ULongSub(bidPrice, 100) ELSE 0

\* autotrader.cc 153-155
BuyScanInit(st) == [st |-> st, smallestOrderId |-> 0, bidAlreadyExists |-> FALSE]

SmallestOrder(acc) ==
    IF acc.smallestOrderId = 0 THEN MAX_ORDER ELSE acc.st.mBids[acc.smallestOrderId]

\* autotrader.cc 160-162
NotesBidAtTarget(order, newBidPrice) == order.price = newBidPrice

\* autotrader.cc 163
BidTooAggressive(order, newBidPrice) == order.price > newBidPrice

\* autotrader.cc 157-169
BuyScanStep(acc, orderId, newBidPrice) ==
    LET order == acc.st.mBids[orderId]
        a1 == IF NotesBidAtTarget(order, newBidPrice)
              THEN [acc EXCEPT !.bidAlreadyExists = TRUE]
              ELSE acc
    IN IF order.cancelling
       THEN acc
       ELSE IF BidTooAggressive(order, newBidPrice)
            THEN [a1 EXCEPT !.st = [SendCancelOrder(a1.st, orderId)
                                        EXCEPT !.mBids[orderId].cancelling = TRUE]]
            ELSE IF order.price <= SmallestOrder(a1).price
                 THEN [a1 EXCEPT !.smallestOrderId = orderId]
                 ELSE a1

\* autotrader.cc 156-170
RECURSIVE BuyScan(_, _, _, _)
BuyScan(acc, ord, i, newBidPrice) ==
    IF i > Len(ord)
    THEN acc
    ELSE BuyScan(BuyScanStep(acc, ord[i], newBidPrice), ord, i + 1, newBidPrice)

\* autotrader.cc 172
BuyMakeRoomDue(acc) ==
    /\ acc.smallestOrderId # 0
    /\ ~SmallestOrder(acc).cancelling
    /\ acc.st.mETFOrderBidCount >= MAX_ORDER_DEPTH - 1

\* autotrader.cc 172-178
BuyMakeRoom(acc) ==
    IF BuyMakeRoomDue(acc)
    THEN [acc EXCEPT !.st =
              SendCancelOrder(
                  [RLOG(acc.st, "cancelling buy order to make room")
                       EXCEPT !.mBids[acc.smallestOrderId].cancelling = TRUE],
                  acc.smallestOrderId)]
    ELSE [acc EXCEPT !.st = RLOG(acc.st, "not cancelling buy order")]

\* autotrader.cc 180-183
BuyGateBlocked(st, bidAlreadyExists, bidPrice) ==
    \/ bidAlreadyExists
    \/ (st.mETFPosition + st.mETFOrderPositionBuy + LOT_SIZE) > POSITION_LIMIT
    \/ st.mETFOrderBidCount >= MAX_ORDER_DEPTH
    \/ bidPrice = 0

\* autotrader.cc 187-192
BuyPlace(st, newBidPrice) ==
    LET orderId == st.mNextMessageId
        s1 == SendInsertOrder([st EXCEPT !.mNextMessageId = @ + 1],
                              orderId, "BUY", newBidPrice, LOT_SIZE)
    IN [s1 EXCEPT !.mETFOrderBidCount = @ + 1,
                  !.mETFOrderPositionBuy = @ + LOT_SIZE,
                  !.mBids = MapPut(@, orderId,
                                   [price |-> newBidPrice,
                                    remainingVolume |-> LOT_SIZE,
                                    filledVolume |-> 0,
                                    cancelling |-> FALSE])]

\* autotrader.cc 151-178: the locals and fields when control reaches line 180
BuyAtGate(st, ord, bidPrice) ==
    BuyMakeRoom(BuyScan(BuyScanInit(st), ord, 1, NewBidPrice(bidPrice)))

\* autotrader.cc 148-194, for one iteration order of mBids
RepriceBuyOrdersIn(st, ord, bidPrice) ==
    LET roomed == BuyAtGate(st, ord, bidPrice)
    IN IF BuyGateBlocked(roomed.st, roomed.bidAlreadyExists, bidPrice)
       THEN roomed.st
       ELSE BuyPlace(roomed.st, NewBidPrice(bidPrice))

\* autotrader.cc 148-194
RepriceBuyOrders(st, bidPrice) ==
    {RepriceBuyOrdersIn(st, ord, bidPrice) : ord \in IterationOrders(st.mBids)}

-----------------------------------------------------------------------------
(* OrderBookMessageHandler *)

\* IsStale with < for <= in line 76
IsStaleStrict(st, sequenceNumber) == sequenceNumber < st.mOrderBookSequence

\* autotrader.cc 76
IsStale(st, sequenceNumber) == sequenceNumber <= st.mOrderBookSequence

\* autotrader.cc 88
DrivesRepricing(instrument) == instrument = "FUTURE"

\* autotrader.cc 68-95: the set of outcomes, one per iteration order of the maps
OrderBookMessageHandler(st, instrument, sequenceNumber, askPrice, bidPrice) ==
    IF IsStale(st, sequenceNumber)
    THEN {RLOG(st, "received old order book information")}
    ELSE LET s1 == RLOG([st EXCEPT !.mOrderBookSequence = sequenceNumber],
                        "order book received")
         IN IF ~DrivesRepricing(instrument)
            THEN {s1}
            ELSE UNION {RepriceBuyOrders(s2, bidPrice) :
                            s2 \in RepriceSellOrders(s1, askPrice)}

-----------------------------------------------------------------------------
(* The state machine: one action per event the session layer delivers *)

\* the fields after a handler returned st
Deliver(st) ==
    /\ mNextMessageId' = st.mNextMessageId
    /\ mOrderBookSequence' = st.mOrderBookSequence
    /\ mETFOrderPositionSell' = st.mETFOrderPositionSell
    /\ mETFOrderPositionBuy' = st.mETFOrderPositionBuy
    /\ mETFOrderAskCount' = st.mETFOrderAskCount
    /\ mETFOrderBidCount' = st.mETFOrderBidCount
    /\ mETFPosition' = st.mETFPosition
    /\ mAsks' = st.mAsks
    /\ mBids' = st.mBids
    /\ sent' = st.sent
    /\ log' = st.log

EmptyLedger == [k \in {} |-> MIN_ORDER]

\* part_000 117-133 (the member initialisers), autotrader.cc 40-42
Init ==
    /\ mNextMessageId = 1
    /\ mOrderBookSequence = 0
    /\ mETFOrderPositionSell = 0
    /\ mETFOrderPositionBuy = 0
    /\ mETFOrderAskCount = 0
    /\ mETFOrderBidCount = 0
    /\ mETFPosition = 0
    /\ mAsks = EmptyLedger
    /\ mBids = EmptyLedger
    /\ sent = << >>
    /\ log = << >>

\* the model stops allocating ids at maxId: a handler that would pass it is not run
WithinIds(st, maxId) == st.mNextMessageId <= maxId + 1

\* the session layer calls OrderBookMessageHandler
BookStep(instrument, sequenceNumber, askPrice, bidPrice, maxId) ==
    \E st \in OrderBookMessageHandler(Cur, instrument, sequenceNumber,
                                      askPrice, bidPrice) :
        WithinIds(st, maxId) /\ Deliver(st)

\* the session layer calls OrderStatusMessageHandler
StatusStep(clientOrderId, fillVolume, remainingVolume, maxId) ==
    LET st == OrderStatusMessageHandler(Cur, clientOrderId, fillVolume,
                                        remainingVolume)
    IN WithinIds(st, maxId) /\ Deliver(st)

\* the session layer calls ErrorMessageHandler
ErrorStep(clientOrderId, maxId) ==
    LET st == ErrorMessageHandler(Cur, clientOrderId)
    IN WithinIds(st, maxId) /\ Deliver(st)

-----------------------------------------------------------------------------
(* Spec: the handlers under every event the interface admits, in any order: *)
(* any instrument, sequence number, prices, order id and volumes.           *)

BookUpdate ==
    \E instrument \in Instruments, sequenceNumber \in 1 .. MaxSeq,
       askPrice \in BookPrices, bidPrice \in BookPrices :
        BookStep(instrument, sequenceNumber, askPrice, bidPrice, MaxId)

OrderStatus ==
    \E clientOrderId \in OrderIds, fillVolume \in Volumes, remainingVolume \in Volumes :
        StatusStep(clientOrderId, fillVolume, remainingVolume, MaxId)

OrderError ==
    \E clientOrderId \in OrderIds : ErrorStep(clientOrderId, MaxId)

Next == BookUpdate \/ OrderStatus \/ OrderError

Spec == Init /\ [][Next]_vars

-----------------------------------------------------------------------------
(* SpecQuote: the engine behind a session that delivers the traded          *)
(* instrument's book in sequence-number order and an exchange that reports  *)
(* each order's fills and cancellations in order.                           *)

QuoteMaxId == 6
QuoteMaxSeq == 7
QuoteMaxLevel == 2

QuotePrices == {TICK_SIZE_IN_CENTS * k : k \in 0 .. QuoteMaxLevel}

Tracked == (DOMAIN mAsks) \cup (DOMAIN mBids)

TrackedOrder(clientOrderId) ==
    IF clientOrderId \in DOMAIN mAsks THEN mAsks[clientOrderId]
                                      ELSE mBids[clientOrderId]

\* part_000 89-93: fill volume is the lots already traded, remaining volume the
\* lots yet to be traded, zero once the order is cancelled: the filled volume
\* never falls and filled + remaining never grows
OrderedStatus(order, fillVolume, remainingVolume) ==
    /\ fillVolume >= order.filledVolume
    /\ fillVolume + remainingVolume <= order.filledVolume + order.remainingVolume
    /\ << fillVolume, remainingVolume >> #
           << order.filledVolume, order.remainingVolume >>

\* one side of the book is quoted at a time
QuoteBook ==
    \E askPrice \in QuotePrices, bidPrice \in QuotePrices :
        /\ askPrice = 0 \/ bidPrice = 0
        /\ mOrderBookSequence < QuoteMaxSeq
        /\ BookStep("FUTURE", mOrderBookSequence + 1, askPrice, bidPrice, QuoteMaxId)

\* an order is filled whole or cancelled whole
QuoteStatus ==
    \E clientOrderId \in Tracked, fillVolume \in {0, LOT_SIZE} :
        /\ OrderedStatus(TrackedOrder(clientOrderId), fillVolume, 0)
        /\ StatusStep(clientOrderId, fillVolume, 0, QuoteMaxId)

NextQuote == QuoteBook \/ QuoteStatus

SpecQuote == Init /\ [][NextQuote]_vars

-----------------------------------------------------------------------------
(* SpecRisk: a long run against the position limit.  The session delivers   *)
(* the traded instrument's book in sequence-number order with a steady best *)
(* ask.  While the position is above -RiskOnset the market only sells off:  *)
(* the bid side is empty and the engine's sell orders are filled whole.     *)
(* From there on the best bid moves between levels, the exchange reports    *)
(* fills and cancellations of each order in order, and may reject a resting *)
(* order with an error.                                                     *)

RiskMaxId == 26
RiskMaxSeq == 11
RiskBidLevels == 2
RiskOnset == 80

RiskAsk == TICK_SIZE_IN_CENTS
RiskBids == {TICK_SIZE_IN_CENTS * k : k \in 1 .. RiskBidLevels}

SellOff == mETFPosition > -RiskOnset

RiskBook ==
    \E bidPrice \in (IF SellOff THEN {0} ELSE RiskBids) :
        /\ mOrderBookSequence < RiskMaxSeq
        /\ BookStep("FUTURE", mOrderBookSequence + 1, RiskAsk, bidPrice, RiskMaxId)

RiskStatus ==
    \E clientOrderId \in Tracked, fillVolume \in Volumes, remainingVolume \in Volumes :
        /\ OrderedStatus(TrackedOrder(clientOrderId), fillVolume, remainingVolume)
        /\ SellOff => (fillVolume = LOT_SIZE /\ remainingVolume = 0)
        /\ StatusStep(clientOrderId, fillVolume, remainingVolume, RiskMaxId)

RiskError ==
    /\ ~SellOff
    /\ \E clientOrderId \in Tracked : ErrorStep(clientOrderId, RiskMaxId)

NextRisk == RiskBook \/ RiskStatus \/ RiskError

SpecRisk == Init /\ [][NextRisk]_vars

-----------------------------------------------------------------------------
(* Vocabulary of the properties *)

\* the fields of a handler's result, without what it sent and logged
Core(st) == [st EXCEPT !.sent = << >>, !.log = << >>]

Range(seq) == {seq[i] : i \in 1 .. Len(seq)}

Sent(st, type) == {r \in Range(st.sent) : r.type = type}

LogStale == << "received old order book information" >>
LogStatusTracked == << "order status message received" >>
LogStatusUntracked == << "order status message received",
                         "received order status for order we are not tracking" >>
LogErrorTracked == << "error with order", "order status message received" >>
LogErrorUntracked == << "error with order" >>

\* an order of the ledger rests at price and is not marked cancelling
LiveAt(ledger, price) ==
    \E id \in DOMAIN ledger : ~ledger[id].cancelling /\ ledger[id].price = price

-----------------------------------------------------------------------------
\* C2: in every reachable state each side's ledger holds at most MAX_ORDER_DEPTH
\* (5) orders, the cancelling ones counted, and each per-side resting-order
\* counter is at most 5.
C2_LedgerDepth ==
    /\ Cardinality(DOMAIN mAsks) <= MAX_ORDER_DEPTH
    /\ Cardinality(DOMAIN mBids) <= MAX_ORDER_DEPTH
    /\ mETFOrderAskCount <= MAX_ORDER_DEPTH
    /\ mETFOrderBidCount <= MAX_ORDER_DEPTH

\* five sell orders are held, some of them cancelling, an id is still free, and
\* the book update just handled placed nothing
C2_Witness ==
    /\ Cardinality(DOMAIN mAsks) = MAX_ORDER_DEPTH
    /\ mETFOrderAskCount = MAX_ORDER_DEPTH
    /\ \E id \in DOMAIN mAsks : mAsks[id].cancelling
    /\ mNextMessageId <= QuoteMaxId
    /\ Len(log) >= 1
    /\ log[1] = "order book received"
    /\ \A i \in 1 .. Len(sent) : sent[i].type # "insert"

-----------------------------------------------------------------------------
\* C3: from every reachable state and for every order-status update (id, fill
\* volume, remaining volume), handling the same update a second time right
\* after the first changes no field (position, committed volumes, counts,
\* ledgers, next id) and sends nothing, whether the order was kept or removed.
C3_StatusIdempotent ==
    \A clientOrderId \in OrderIds, fillVolume \in Volumes, remainingVolume \in Volumes :
        LET first == OrderStatusMessageHandler(Cur, clientOrderId, fillVolume,
                                               remainingVolume)
            second == OrderStatusMessageHandler(Core(first), clientOrderId,
                                                fillVolume, remainingVolume)
        IN Core(second) = Core(first) /\ second.sent = << >>

\* a status update with a fill has just been handled and its order is kept with
\* the reported volumes: the state in which the same update arrives again
C3_Witness ==
    /\ log = LogStatusTracked
    /\ Len(sent) = 1
    /\ sent[1].type = "hedge"
    /\ \E id \in DOMAIN mBids :
           /\ mBids[id].filledVolume = sent[1].volume
           /\ mBids[id].remainingVolume > 0
           /\ OrderStatusMessageHandler(Cur, id, mBids[id].filledVolume,
                                        mBids[id].remainingVolume).sent = << >>

-----------------------------------------------------------------------------
\* C4: a book update whose sequence number is at most the last-seen one sends
\* nothing and changes no field: ledgers and cancelling flags, counts,
\* committed volumes, position, next id, last-seen sequence number.
C4_StaleBookNoEffect ==
    \A instrument \in Instruments, sequenceNumber \in 0 .. MaxSeq,
       askPrice \in BookPrices, bidPrice \in BookPrices :
        sequenceNumber <= mOrderBookSequence =>
            \A st \in OrderBookMessageHandler(Cur, instrument, sequenceNumber,
                                              askPrice, bidPrice) :
                Core(st) = Core(Cur) /\ st.sent = << >>

\* a stale book update has just been dropped while an order rests that a
\* fresh update with an empty book would cancel
C4_Witness ==
    /\ log = LogStale
    /\ sent = << >>
    /\ mOrderBookSequence >= 1
    /\ \E id \in DOMAIN mAsks : ~mAsks[id].cancelling

-----------------------------------------------------------------------------
\* C5: when every further book update reports the same best ask P > 0 and
\* every cancel sent is confirmed, the engine ends with exactly one
\* non-cancelling sell order, priced P + 100, and further identical updates
\* send nothing on the sell side.  A state with no sell order waiting for a
\* cancel confirmation in which a book update with best ask P sends nothing on
\* the sell side and changes no field is one the engine stays in for ever
\* under those updates, so it is where the engine ends: it must hold exactly
\* one non-cancelling sell order, and that order priced P + 100.
SellSettled(askPrice) ==
    /\ \A id \in DOMAIN mAsks : ~mAsks[id].cancelling
    /\ \A st \in RepriceSellOrders(Cur, askPrice) :
           st.sent = << >> /\ st.mAsks = mAsks /\ Core(st) = Core(Cur)

LiveSells == {id \in DOMAIN mAsks : ~mAsks[id].cancelling}

C5_Convergence ==
    \A askPrice \in QuotePrices \ {0} :
        SellSettled(askPrice) =>
            /\ Cardinality(LiveSells) = 1
            /\ \A id \in LiveSells : mAsks[id].price = askPrice + 100

-----------------------------------------------------------------------------
\* C6: an order-error event for an id held in a ledger removes the order from
\* that ledger, lowers that side's count by one and that side's committed
\* volume by the order's stored remaining volume; afterwards no ledger holds
\* the id.
C6_ErrorRemovesOrder ==
    \A clientOrderId \in Tracked :
        LET st == ErrorMessageHandler(Cur, clientOrderId)
            order == TrackedOrder(clientOrderId)
        IN /\ clientOrderId \notin DOMAIN st.mAsks
           /\ clientOrderId \notin DOMAIN st.mBids
           /\ IF clientOrderId \in DOMAIN mAsks
              THEN /\ st.mAsks = MapErase(mAsks, clientOrderId)
                   /\ st.mETFOrderAskCount = mETFOrderAskCount - 1
                   /\ st.mETFOrderPositionSell =
                          mETFOrderPositionSell - order.remainingVolume
                   /\ st.mBids = mBids
                   /\ st.mETFOrderBidCount = mETFOrderBidCount
                   /\ st.mETFOrderPositionBuy = mETFOrderPositionBuy
              ELSE /\ st.mBids = MapErase(mBids, clientOrderId)
                   /\ st.mETFOrderBidCount = mETFOrderBidCount - 1
                   /\ st.mETFOrderPositionBuy =
                          mETFOrderPositionBuy - order.remainingVolume
                   /\ st.mAsks = mAsks
                   /\ st.mETFOrderAskCount = mETFOrderAskCount
                   /\ st.mETFOrderPositionSell = mETFOrderPositionSell

\* an error for a tracked order has just been handled and the other side
\* still holds an order with volume committed
C6_Witness ==
    /\ log = LogErrorTracked
    /\ mETFOrderAskCount = 0
    /\ mETFOrderPositionSell = 0
    /\ mETFOrderBidCount = 1
    /\ mETFOrderPositionBuy > 0

-----------------------------------------------------------------------------
\* C7: an order-error event for a tracked order, whatever filled volume is
\* recorded for it, leaves the confirmed position unchanged and sends no
\* request (no hedge order in particular).
C7_ErrorIsZeroFill ==
    [][log' = LogErrorTracked => (mETFPosition' = mETFPosition /\ sent' = << >>)]_vars

-----------------------------------------------------------------------------
\* C8: an order-status or order-error event whose id is in neither ledger
\* (never placed, already removed, or 0) changes no field and sends nothing.
C8_UntrackedNoEffect ==
    \A clientOrderId \in OrderIds \ Tracked :
        /\ \A fillVolume \in Volumes, remainingVolume \in Volumes :
               LET st == OrderStatusMessageHandler(Cur, clientOrderId, fillVolume,
                                                   remainingVolume)
               IN Core(st) = Core(Cur) /\ st.sent = << >>
        /\ LET st == ErrorMessageHandler(Cur, clientOrderId)
           IN Core(st) = Core(Cur) /\ st.sent = << >>

\* a status update for an untracked id has just been ignored while orders are
\* tracked and an earlier order has already been removed
C8_Witness ==
    /\ log = LogStatusUntracked
    /\ sent = << >>
    /\ Tracked # {}
    /\ \E id \in 1 .. mNextMessageId - 1 : id \notin Tracked

-----------------------------------------------------------------------------
\* C9: a status update on a tracked order whose fill volume exceeds the stored
\* filled volume by d > 0 moves the position by +d (buy order) or -d (sell
\* order) and sends exactly one request, a hedge order for d lots on the
\* opposite side under a fresh id that enters no ledger; with remaining volume
\* 0 the order is removed and its side's count lowered by one, otherwise it
\* stays with the reported remaining and filled volumes.
C9_FillHedged ==
    \A clientOrderId \in Tracked, fillVolume \in Volumes, remainingVolume \in Volumes :
        LET order == TrackedOrder(clientOrderId)
            isSell == clientOrderId \in DOMAIN mAsks
            d == fillVolume - order.filledVolume
            st == OrderStatusMessageHandler(Cur, clientOrderId, fillVolume,
                                            remainingVolume)
            ledger == IF isSell THEN mAsks ELSE mBids
            ledgerAfter == IF isSell THEN st.mAsks ELSE st.mBids
            count == IF isSell THEN mETFOrderAskCount ELSE mETFOrderBidCount
            countAfter == IF isSell THEN st.mETFOrderAskCount
                                    ELSE st.mETFOrderBidCount
        IN d > 0 =>
            /\ st.mETFPosition = IF isSell THEN mETFPosition - d ELSE mETFPosition + d
            /\ Len(st.sent) = 1
            /\ st.sent[1].type = "hedge"
            /\ st.sent[1].volume = d
            /\ st.sent[1].side = IF isSell THEN "BUY" ELSE "SELL"
            /\ st.sent[1].id = mNextMessageId
            /\ st.sent[1].id \notin Tracked
            /\ st.mNextMessageId = mNextMessageId + 1
            /\ st.sent[1].id \notin (DOMAIN st.mAsks) \cup (DOMAIN st.mBids)
            /\ IF remainingVolume = 0
               THEN /\ ledgerAfter = MapErase(ledger, clientOrderId)
                    /\ countAfter = count - 1
               ELSE /\ ledgerAfter =
                          [ledger EXCEPT ![clientOrderId] =
                               [order EXCEPT !.remainingVolume = remainingVolume,
                                             !.filledVolume = fillVolume]]
                    /\ countAfter = count

\* a buy order has just been filled whole: position +LOT_SIZE, one sell hedge
\* for LOT_SIZE lots, the order gone from the ledger
C9_Witness ==
    /\ log = LogStatusTracked
    /\ Len(sent) = 1
    /\ sent[1].type = "hedge"
    /\ sent[1].side = "SELL"
    /\ sent[1].volume = LOT_SIZE
    /\ mETFPosition = LOT_SIZE
    /\ mETFOrderBidCount = 0
    /\ mBids = EmptyLedger

-----------------------------------------------------------------------------
\* C10: in a repricing pass for one side a new order is placed if and only if
\* none of these holds at the gate: a non-cancelling order rests at the target
\* price; one more LOT_SIZE order would break the position limit; the side's
\* count is MAX_ORDER_DEPTH; the side's best price in the update is 0.
C10_PlacementGate ==
    /\ \A askPrice \in QuotePrices :
           \A ord \in IterationOrders(mAsks) :
               LET gate == SellAtGate(Cur, ord, askPrice).st
                   out == RepriceSellOrdersIn(Cur, ord, askPrice)
               IN (Sent(out, "insert") # {}) <=>
                      ~ \/ LiveAt(gate.mAsks, NewAskPrice(askPrice))
                        \/ gate.mETFPosition - gate.mETFOrderPositionSell - LOT_SIZE
                               < -POSITION_LIMIT
                        \/ gate.mETFOrderAskCount >= MAX_ORDER_DEPTH
                        \/ askPrice = 0
    /\ \A bidPrice \in QuotePrices :
           \A ord \in IterationOrders(mBids) :
               LET gate == BuyAtGate(Cur, ord, bidPrice).st
                   out == RepriceBuyOrdersIn(Cur, ord, bidPrice)
               IN (Sent(out, "insert") # {}) <=>
                      ~ \/ LiveAt(gate.mBids, NewBidPrice(bidPrice))
                        \/ gate.mETFPosition + gate.mETFOrderPositionBuy + LOT_SIZE
                               > POSITION_LIMIT
                        \/ gate.mETFOrderBidCount >= MAX_ORDER_DEPTH
                        \/ bidPrice = 0

-----------------------------------------------------------------------------
\* C1: in every reachable state the confirmed position plus the committed buy
\* volume is at most POSITION_LIMIT (100) and the confirmed position minus
\* the committed sell volume is at least -POSITION_LIMIT.
C1_PositionLimit ==
    /\ mETFPosition + mETFOrderPositionBuy <= POSITION_LIMIT
    /\ mETFPosition - mETFOrderPositionSell >= -POSITION_LIMIT

-----------------------------------------------------------------------------
\* C11: when the placement gate passes, a repricing pass places exactly one
\* order on that side, at best bid - 100 for a buy and best ask + 100 for a
\* sell, for 10 lots and with a fresh id; the side's count grows by 1, its
\* committed volume by 10, and the order is recorded with remainingVolume 10,
\* filledVolume 0 and cancelling false.  A fresh engine that sees best bid
\* 10000 holds one buy order at 9900 and committed buy volume 10.  No book
\* update places more than one order per side.
Inserts(st, side) ==
    {i \in 1 .. Len(st.sent) : st.sent[i].type = "insert" /\ st.sent[i].side = side}

NewOrder(price) ==
    [price |-> price, remainingVolume |-> LOT_SIZE, filledVolume |-> 0,
     cancelling |-> FALSE]

SellPlacedOne(gate, after, price) ==
    /\ Cardinality(Inserts(after, "SELL")) = 1
    /\ \A i \in Inserts(after, "SELL") :
           /\ after.sent[i].price = price
           /\ after.sent[i].volume = 10
           /\ after.sent[i].id = gate.mNextMessageId
           /\ after.sent[i].id \notin (DOMAIN gate.mAsks) \cup (DOMAIN gate.mBids)
           /\ after.mAsks = MapPut(gate.mAsks, after.sent[i].id, NewOrder(price))
    /\ after.mETFOrderAskCount = gate.mETFOrderAskCount + 1
    /\ after.mETFOrderPositionSell = gate.mETFOrderPositionSell + 10

BuyPlacedOne(gate, after, price) ==
    /\ Cardinality(Inserts(after, "BUY")) = 1
    /\ \A i \in Inserts(after, "BUY") :
           /\ after.sent[i].price = price
           /\ after.sent[i].volume = 10
           /\ after.sent[i].id = gate.mNextMessageId
           /\ after.sent[i].id \notin (DOMAIN gate.mAsks) \cup (DOMAIN gate.mBids)
           /\ after.mBids = MapPut(gate.mBids, after.sent[i].id, NewOrder(price))
    /\ after.mETFOrderBidCount = gate.mETFOrderBidCount + 1
    /\ after.mETFOrderPositionBuy = gate.mETFOrderPositionBuy + 10

FreshEngine == mNextMessageId = 1

C11_Placement ==
    /\ \A askPrice \in QuotePrices : \A ord \in IterationOrders(mAsks) :
           LET gate == SellAtGate(Cur, ord, askPrice)
               after == RepriceSellOrdersIn(Cur, ord, askPrice)
           IN /\ Cardinality(Inserts(after, "SELL")) <= 1
              /\ ~SellGateBlocked(gate.st, gate.askAlreadyExists, askPrice)
                     => SellPlacedOne(gate.st, after, askPrice + 100)
    /\ \A askPrice \in QuotePrices, bidPrice \in QuotePrices :
       \A sold \in RepriceSellOrders(Cur, askPrice) :
       \A ord \in IterationOrders(sold.mBids) :
           LET gate == BuyAtGate(sold, ord, bidPrice)
               after == RepriceBuyOrdersIn(sold, ord, bidPrice)
           IN /\ Cardinality(Inserts(after, "BUY")) <= 1
              /\ Cardinality(Inserts(after, "SELL")) <= 1
              /\ ~BuyGateBlocked(gate.st, gate.bidAlreadyExists, bidPrice)
                     => BuyPlacedOne(gate.st, after, bidPrice - 100)
    /\ FreshEngine =>
           \A after \in RepriceBuyOrders(Cur, 10000) :
               /\ after.mBids = MapPut(EmptyLedger, 1, NewOrder(9900))
               /\ after.mETFOrderPositionBuy = 10
               /\ Cardinality(Inserts(after, "BUY")) = 1

\* a book update has just placed one order on each side, with orders held
C11_Witness ==
    /\ Len(log) >= 1 /\ log[1] = "order book received"
    /\ \E i \in 1 .. Len(sent) : sent[i].type = "insert" /\ sent[i].side = "BUY"
    /\ \E i \in 1 .. Len(sent) : sent[i].type = "insert" /\ sent[i].side = "SELL"
    /\ mNextMessageId > 3

-----------------------------------------------------------------------------
\* C12: a sell pass entered with the sell count >= 4 and at least one
\* non-cancelling sell order priced >= target sends a cancel for exactly the
\* highest-priced such order and marks it cancelling; the buy side cancels
\* the lowest-priced non-cancelling order priced <= target.  Below a count of
\* 4 no such cancel is sent.  At a count of 5 the pass places nothing, so
\* the side holds no more than 5 orders.
Cancels(st) ==
    {i \in 1 .. Len(st.sent) : st.sent[i].type = "cancel"}

CancelsOf(st, ids) == {i \in Cancels(st) : st.sent[i].id \in ids}

SellsKept(ledger, target) ==
    {id \in DOMAIN ledger : ~ledger[id].cancelling /\ ledger[id].price >= target}

BuysKept(ledger, target) ==
    {id \in DOMAIN ledger : ~ledger[id].cancelling /\ ledger[id].price <= target}

C12_MakeRoom ==
    /\ \A askPrice \in QuotePrices : \A ord \in IterationOrders(mAsks) :
           LET target == IF askPrice # 0 THEN askPrice + 100 ELSE MAXIMUM_ASK
               kept == SellsKept(mAsks, target)
               after == RepriceSellOrdersIn(Cur, ord, askPrice)
               room == CancelsOf(after, kept)
           IN /\ (mETFOrderAskCount >= 4 /\ kept # {}) =>
                     /\ Cardinality(room) = 1
                     /\ \A i \in room : \A id \in kept :
                            /\ mAsks[id].price <= mAsks[after.sent[i].id].price
                            /\ id # after.sent[i].id =>
                                   mAsks[id].price < mAsks[after.sent[i].id].price
                            /\ after.mAsks[after.sent[i].id].cancelling
              /\ mETFOrderAskCount < 4 => room = {}
              /\ mETFOrderAskCount = 5 =>
                     /\ Inserts(after, "SELL") = {}
                     /\ Cardinality(DOMAIN after.mAsks) <= 5
    /\ \A bidPrice \in QuotePrices : \A ord \in IterationOrders(mBids) :
           LET target == IF bidPrice # 0 THEN bidPrice - 100 ELSE 0
               kept == BuysKept(mBids, target)
               after == RepriceBuyOrdersIn(Cur, ord, bidPrice)
               room == CancelsOf(after, kept)
           IN /\ (mETFOrderBidCount >= 4 /\ kept # {}) =>
                     /\ Cardinality(room) = 1
                     /\ \A i \in room : \A id \in kept :
                            /\ mBids[id].price >= mBids[after.sent[i].id].price
                            /\ id # after.sent[i].id =>
                                   mBids[id].price > mBids[after.sent[i].id].price
                            /\ after.mBids[after.sent[i].id].cancelling
              /\ mETFOrderBidCount < 4 => room = {}
              /\ mETFOrderBidCount = 5 =>
                     /\ Inserts(after, "BUY") = {}
                     /\ Cardinality(DOMAIN after.mBids) <= 5

\* a sell pass entered with five sell orders held has just made room
C12_Witness ==
    /\ \E i \in 1 .. Len(log) : log[i] = "cancelling sell order to make room"
    /\ mETFOrderAskCount = 5
    /\ \A i \in 1 .. Len(sent) : sent[i].type # "insert"

-----------------------------------------------------------------------------
\* C13: a book update for the instrument that does not drive repricing is
\* observational only: it sends nothing, and a later book update for the
\* repricing instrument, delivered with a sequence number above every one
\* that instrument has had, sends the same requests and leaves the same
\* orders, counts, committed volumes, position and next id as it would have
\* without the other instrument's update.
Handling(st) ==
    [sent |-> st.sent,
     mNextMessageId |-> st.mNextMessageId,
     mETFOrderPositionSell |-> st.mETFOrderPositionSell,
     mETFOrderPositionBuy |-> st.mETFOrderPositionBuy,
     mETFOrderAskCount |-> st.mETFOrderAskCount,
     mETFOrderBidCount |-> st.mETFOrderBidCount,
     mETFPosition |-> st.mETFPosition,
     mAsks |-> st.mAsks,
     mBids |-> st.mBids]

C13_OtherBookObservational ==
    \A otherSeq \in 1 .. MaxSeq, sequenceNumber \in 1 .. MaxSeq,
       askPrice \in BookPrices, bidPrice \in BookPrices :
        sequenceNumber > mOrderBookSequence =>
            \A other \in OrderBookMessageHandler(Cur, "ETF", otherSeq, 0, 0) :
                /\ other.sent = << >>
                /\ {Handling(st) : st \in OrderBookMessageHandler(
                        Core(other), "FUTURE", sequenceNumber, askPrice, bidPrice)}
                     = {Handling(st) : st \in OrderBookMessageHandler(
                        Cur, "FUTURE", sequenceNumber, askPrice, bidPrice)}

-----------------------------------------------------------------------------
\* C14: a repricing pass never sends a cancel for an order whose price equals
\* the target price the pass computed, whatever the side's count.
C14_NoSelfCancel ==
    /\ \A askPrice \in QuotePrices : \A ord \in IterationOrders(mAsks) :
           LET target == IF askPrice # 0 THEN askPrice + 100 ELSE MAXIMUM_ASK
               after == RepriceSellOrdersIn(Cur, ord, askPrice)
           IN \A i \in Cancels(after) : mAsks[after.sent[i].id].price # target
    /\ \A bidPrice \in QuotePrices : \A ord \in IterationOrders(mBids) :
           LET target == IF bidPrice # 0 THEN bidPrice - 100 ELSE 0
               after == RepriceBuyOrdersIn(Cur, ord, bidPrice)
           IN \A i \in Cancels(after) : mBids[after.sent[i].id].price # target

-----------------------------------------------------------------------------
\* C15: in every reachable state no two orders of the same side's ledger
\* that are both not marked cancelling have the same price.
NoDuplicateLive(ledger) ==
    \A a, b \in DOMAIN ledger :
        (a # b /\ ~ledger[a].cancelling /\ ~ledger[b].cancelling)
            => ledger[a].price # ledger[b].price

C15_NoDuplicateLive == NoDuplicateLive(mAsks) /\ NoDuplicateLive(mBids)

\* a sell order rests at the price of another one that is being cancelled,
\* beside a second resting order
C15_Witness ==
    /\ \E a, b \in DOMAIN mAsks :
           /\ a # b
           /\ mAsks[a].price = mAsks[b].price
           /\ mAsks[a].cancelling /\ ~mAsks[b].cancelling
    /\ Cardinality(LiveSells) >= 2

-----------------------------------------------------------------------------
\* C16: a cancel request is sent at most once for any order id, and only for
\* an id that is in a ledger when it is sent; an order marked cancelling
\* stays marked until it is removed, partial-fill status updates included.
\* Step by step: every cancel an event sends is for an order that was in a
\* ledger and not yet marked, and is marked afterwards; no event sends two
\* cancels for one id; a mark is never cleared while the order is held; and
\* an id that enters a ledger was never held before (it is the next id).
CancelMarks(before, after, id) ==
    /\ id \in DOMAIN before /\ ~before[id].cancelling
    /\ id \in DOMAIN after /\ after[id].cancelling

MarksKept(before, after) ==
    \A id \in (DOMAIN before) \cap (DOMAIN after) :
        before[id].cancelling => after[id].cancelling

EntersFresh(before, after, nextId) ==
    \A id \in (DOMAIN after) \ (DOMAIN before) : id >= nextId

-----------------------------------------------------------------------------
\* C17: in every reachable state the committed buy volume is the sum of
\* remainingVolume over the buy ledger and the committed sell volume the sum
\* over the sell ledger, cancelling orders included, also after a status
\* update that reports a remaining volume not smaller than the stored one.
RECURSIVE SumRemaining(_)
SumRemaining(ledger) ==
    IF DOMAIN ledger = {}
    THEN 0
    ELSE LET id == CHOOSE k \in DOMAIN ledger : TRUE
         IN ledger[id].remainingVolume + SumRemaining(MapErase(ledger, id))

C17_CommittedIsSum ==
    /\ mETFOrderPositionSell = SumRemaining(mAsks)
    /\ mETFOrderPositionBuy = SumRemaining(mBids)

\* a status update has reported the full remaining volume for an order that
\* had already traded
C17_Witness ==
    /\ log = LogStatusTracked
    /\ \E id \in DOMAIN mAsks :
           mAsks[id].remainingVolume = LOT_SIZE /\ mAsks[id].filledVolume = PartVol
    /\ \E id \in DOMAIN mAsks : mAsks[id].cancelling

-----------------------------------------------------------------------------
\* C18: every id sent in a place-order or hedge-order request is strictly
\* greater than every id sent before it, from one counter that starts at 1:
\* no id is reused, no id is in both ledgers, and an id removed from a ledger
\* never re-enters one.  Step by step: the ids an event sends are at least
\* the next id before the event, below the next id after it and increasing
\* in the order sent; the first id ever sent is 1; the ledgers are disjoint
\* and hold only ids below the next id; an id entering a ledger is at least
\* the next id before the event.
Allocations(requests) ==
    {i \in 1 .. Len(requests) : requests[i].type \in {"insert", "hedge"}}

C18_FreshIds ==
    [][/\ \A i \in Allocations(sent') :
              /\ sent'[i].id >= mNextMessageId
              /\ sent'[i].id < mNextMessageId'
              /\ \A j \in Allocations(sent') : i < j => sent'[i].id < sent'[j].id
       /\ (FreshEngine /\ Allocations(sent') # {}) =>
              \E i \in Allocations(sent') : sent'[i].id = 1
       /\ mNextMessageId' >= mNextMessageId
       /\ (DOMAIN mAsks') \cap (DOMAIN mBids') = {}
       /\ \A id \in (DOMAIN mAsks') \cup (DOMAIN mBids') : id < mNextMessageId'
       /\ EntersFresh(mAsks, mAsks', mNextMessageId)
       /\ EntersFresh(mBids, mBids', mNextMessageId)
      ]_vars

\* a book update has just placed a sell and a buy order after a fill was hedged
C18_Witness ==
    /\ Cardinality(Allocations(sent)) = 2
    /\ mETFPosition # 0
    /\ mAsks # EmptyLedger /\ mBids # EmptyLedger

-----------------------------------------------------------------------------
\* C19: a repricing pass ignores an order already marked cancelling when it
\* decides whether a quote rests at the target price and when it picks the
\* worst order: it sends no cancel for such an order, and when the only
\* orders at the target price are cancelling and the other gate conditions
\* pass (position check, count below 5, best price present), it places a new
\* order at the target.
CancellingAt(ledger, price) ==
    \E id \in DOMAIN ledger : ledger[id].cancelling /\ ledger[id].price = price

C19_CancellingDoesNotBlock ==
    /\ \A askPrice \in QuotePrices : \A ord \in IterationOrders(mAsks) :
           LET target == IF askPrice # 0 THEN askPrice + 100 ELSE MAXIMUM_ASK
               after == RepriceSellOrdersIn(Cur, ord, askPrice)
           IN /\ \A i \in Cancels(after) : ~mAsks[after.sent[i].id].cancelling
              /\ (/\ CancellingAt(mAsks, target) /\ ~LiveAt(mAsks, target)
                  /\ mETFPosition - mETFOrderPositionSell - 10 >= -100
                  /\ mETFOrderAskCount < 5
                  /\ askPrice # 0)
                 => /\ Cardinality(Inserts(after, "SELL")) = 1
                    /\ \A i \in Inserts(after, "SELL") : after.sent[i].price = target
                    /\ LiveAt(after.mAsks, target)
    /\ \A bidPrice \in QuotePrices : \A ord \in IterationOrders(mBids) :
           LET target == IF bidPrice # 0 THEN bidPrice - 100 ELSE 0
               after == RepriceBuyOrdersIn(Cur, ord, bidPrice)
           IN /\ \A i \in Cancels(after) : ~mBids[after.sent[i].id].cancelling
              /\ (/\ CancellingAt(mBids, target) /\ ~LiveAt(mBids, target)
                  /\ mETFPosition + mETFOrderPositionBuy + 10 <= 100
                  /\ mETFOrderBidCount < 5
                  /\ bidPrice # 0)
                 => /\ Cardinality(Inserts(after, "BUY")) = 1
                    /\ \A i \in Inserts(after, "BUY") : after.sent[i].price = target
                    /\ LiveAt(after.mBids, target)

\* a sell order has just been placed at the price of one that is being
\* cancelled
C19_Witness ==
    \E i \in 1 .. Len(sent) :
        /\ sent[i].type = "insert" /\ sent[i].side = "SELL"
        /\ CancellingAt(mAsks, sent[i].price)

-----------------------------------------------------------------------------
\* C20: in every reachable state the net volume of the hedge orders issued so
\* far (lots bought minus lots sold) is minus the position.  Both are 0 at
\* the start, so every event must send hedge orders whose net volume is
\* minus the change it makes to the position.  A hedge volume is an unsigned
\* long: the residue v stands for v lots when v >= 0 and for 2^64 + v lots
\* when v < 0, so a net volume is kept as wraps * 2^64 + lots.
RECURSIVE HedgeNetFrom(_, _)
HedgeNetFrom(requests, i) ==
    IF i > Len(requests)
    THEN [wraps |-> 0, lots |-> 0]
    ELSE LET rest == HedgeNetFrom(requests, i + 1)
             r == requests[i]
             sign == IF r.side = "BUY" THEN 1 ELSE -1
         IN IF r.type # "hedge"
            THEN rest
            ELSE [wraps |-> rest.wraps + (IF r.volume < 0 THEN sign ELSE 0),
                  lots |-> rest.lots + sign * r.volume]

HedgeNet(requests) == HedgeNetFrom(requests, 1)

C20_HedgeBalance ==
    [][HedgeNet(sent') =
           [wraps |-> 0, lots |-> 0 - (mETFPosition' - mETFPosition)]]_vars

====
